---- MODULE Spec2Model ----
(***************************************************************************)
(* Model of ilp_recommendation_example.py: the gym-class catalog, the      *)
(* preference resolver, the integer program built by build_problem, the    *)
(* solver seen as an oracle over that program, get_solution, and the       *)
(* two-round top-2 generation of recommend_for_user / run_recommendation.  *)
(***************************************************************************)
EXTENDS Integers, Sequences, FiniteSets, TLC

\* ---------------------------------------------------------------- bounds
\* Largest max_classes a request is given (requests range over -1..this).
MaxClassesInput == 3
\* Largest personalised score of a custom override mapping.
MaxOverrideScore == 11
\* How far above the defaults max_budget and max_duration are drawn.
LimitSlack == 1

\* ------------------------------------------------------- optional values
\* Python's None and a present value, as a sequence of length 0 or 1.
None == <<>>
Some(v) == <<v>>
IsNone(o) == Len(o) = 0
Val(o) == o[1]

\* ---------------------------------------------------------- problem data
\* Catalog keys in dict insertion order.
ClassNames == <<"Yoga", "HIIT", "Pilates", "Spinning", "Boxing", "Zumba">>

CLASSES ==
    [Yoga     |-> [price |-> 15, duration |-> 60, time_slot |-> "morning",   category |-> "mind_body", preference_score |-> 8],
     HIIT     |-> [price |-> 20, duration |-> 45, time_slot |-> "morning",   category |-> "cardio",    preference_score |-> 9],
     Pilates  |-> [price |-> 18, duration |-> 60, time_slot |-> "afternoon", category |-> "mind_body", preference_score |-> 7],
     Spinning |-> [price |-> 22, duration |-> 45, time_slot |-> "afternoon", category |-> "cardio",    preference_score |-> 6],
     Boxing   |-> [price |-> 25, duration |-> 60, time_slot |-> "evening",   category |-> "strength",  preference_score |-> 10],
     Zumba    |-> [price |-> 12, duration |-> 45, time_slot |-> "evening",   category |-> "cardio",    preference_score |-> 5]]

MAX_BUDGET == 50
MAX_CLASSES == 3
MAX_DURATION == 150
TIME_SLOTS == <<"morning", "afternoon", "evening">>

USER_PROFILES ==
    [default        |-> None,
     cardio_lover   |-> Some([Yoga |-> 3,  HIIT |-> 10, Pilates |-> 2,  Spinning |-> 9, Boxing |-> 6, Zumba |-> 9]),
     budget_focused |-> Some([Yoga |-> 7,  HIIT |-> 4,  Pilates |-> 8,  Spinning |-> 3, Boxing |-> 2, Zumba |-> 10]),
     mind_body_fan  |-> Some([Yoga |-> 10, HIIT |-> 2,  Pilates |-> 10, Spinning |-> 1, Boxing |-> 1, Zumba |-> 4]),
     mixed          |-> Some([Yoga |-> 5,  HIIT |-> 10, Pilates |-> 4,  Spinning |-> 8, Boxing |-> 7, Zumba |-> 9])]

DIVERSITY_BONUS == 2

\* The status code the program tests for, and the other codes of the solver.
LpStatusOptimal == 1
LpStatusInfeasible == -1
LpStatusNotSolved == 0

\* ------------------------------------------------------- personalisation
\* The argument user_id_or_preferences: None, a profile name, or a mapping.
AsNone == [kind |-> "none", name |-> "", prefs |-> <<>>]
AsName(n) == [kind |-> "str", name |-> n, prefs |-> <<>>]
AsDict(d) == [kind |-> "dict", name |-> "", prefs |-> d]

get_preferences_for_user(user_id_or_preferences) ==
    IF user_id_or_preferences.kind = "none" THEN None
    ELSE IF user_id_or_preferences.kind = "dict" THEN Some(user_id_or_preferences.prefs)
    ELSE IF user_id_or_preferences.name \in DOMAIN USER_PROFILES
         THEN USER_PROFILES[user_id_or_preferences.name]
         ELSE USER_PROFILES["default"]

\* A dict is truthy when it is not None and not empty.
Truthy(user_preferences) ==
    /\ ~IsNone(user_preferences)
    /\ DOMAIN Val(user_preferences) # {}

\* get_score changed: an override applies only when every key of the mapping
\* is a catalog class.
get_score_strict(class_name, user_preferences) ==
    IF /\ Truthy(user_preferences)
       /\ class_name \in DOMAIN Val(user_preferences)
       /\ DOMAIN Val(user_preferences) \subseteq DOMAIN CLASSES
    THEN Val(user_preferences)[class_name]
    ELSE CLASSES[class_name].preference_score

get_score(class_name, user_preferences) ==
    IF Truthy(user_preferences) /\ class_name \in DOMAIN Val(user_preferences)
    THEN Val(user_preferences)[class_name]
    ELSE CLASSES[class_name].preference_score

get_categories(classes) == {classes[c].category : c \in DOMAIN classes}

\* ------------------------------------------------------------ the model
\* Sum of the terms of a sequence (lpSum and sum over a generator).
RECURSIVE SumUpTo(_, _)
SumUpTo(terms, n) == IF n = 0 THEN 0 ELSE terms[n] + SumUpTo(terms, n - 1)

lpSum(terms) == SumUpTo(terms, Len(terms))

\* Sum over a set, whose iteration order is arbitrary.
RECURSIVE SumOver(_, _)
SumOver(f, S) ==
    IF S = {} THEN 0
    ELSE LET k == CHOOSE k \in S : TRUE IN f[k] + SumOver(f, S \ {k})

\* "for c in classes": the catalog's keys in insertion order.
Keys(classes) == SelectSeq(ClassNames, LAMBDA c : c \in DOMAIN classes)

\* "Objective": satisfaction + diversity.
Objective(classes, user_preferences, diversity_bonus, x, y) ==
    LET ks == Keys(classes)
        satisfaction == lpSum([i \in DOMAIN ks |-> get_score(ks[i], user_preferences) * x[ks[i]]])
        diversity == SumOver([cat \in get_categories(classes) |-> diversity_bonus * y[cat]],
                             get_categories(classes))
    IN satisfaction + diversity

\* Budget changed: bounded by the module default instead of the argument.
Budget_default(classes, x, max_budget) ==
    LET ks == Keys(classes)
    IN lpSum([i \in DOMAIN ks |-> classes[ks[i]].price * x[ks[i]]]) <= MAX_BUDGET

\* "Budget"
Budget(classes, x, max_budget) ==
    LET ks == Keys(classes)
    IN lpSum([i \in DOMAIN ks |-> classes[ks[i]].price * x[ks[i]]]) <= max_budget

\* Max_Classes changed: bounded by the module default instead of the argument.
Max_Classes_default(classes, x, max_classes) ==
    LET ks == Keys(classes)
    IN lpSum([i \in DOMAIN ks |-> x[ks[i]]]) <= MAX_CLASSES

\* "Max_Classes"
Max_Classes(classes, x, max_classes) ==
    LET ks == Keys(classes)
    IN lpSum([i \in DOMAIN ks |-> x[ks[i]]]) <= max_classes

\* Max_Duration changed: a strict bound.
Max_Duration_strict(classes, x, max_duration) ==
    LET ks == Keys(classes)
    IN lpSum([i \in DOMAIN ks |-> classes[ks[i]].duration * x[ks[i]]]) < max_duration

\* "Max_Duration"
Max_Duration(classes, x, max_duration) ==
    LET ks == Keys(classes)
    IN lpSum([i \in DOMAIN ks |-> classes[ks[i]].duration * x[ks[i]]]) <= max_duration

\* "Slot_<slot>"
Slot(classes, x, slot) ==
    LET in_slot == SelectSeq(Keys(classes), LAMBDA c : classes[c].time_slot = slot)
    IN lpSum([i \in DOMAIN in_slot |-> x[in_slot[i]]]) <= 1

\* Cat_has_class changed: the indicator is only kept non-negative, so it may be
\* 1 with no class of the category selected.
Cat_has_class_free(classes, x, y, cat) ==
    LET in_cat == SelectSeq(Keys(classes), LAMBDA c : classes[c].category = cat)
    IN lpSum([i \in DOMAIN in_cat |-> x[in_cat[i]]]) >= 0 * y[cat]

\* "Cat_has_class_<cat>"
Cat_has_class(classes, x, y, cat) ==
    LET in_cat == SelectSeq(Keys(classes), LAMBDA c : classes[c].category = cat)
    IN lpSum([i \in DOMAIN in_cat |-> x[in_cat[i]]]) >= y[cat]

\* "Cat_upper_<cat>"
Cat_upper(classes, x, y, cat) ==
    LET in_cat == SelectSeq(Keys(classes), LAMBDA c : classes[c].category = cat)
    IN lpSum([i \in DOMAIN in_cat |-> x[in_cat[i]]]) <= Len(in_cat) * y[cat]

\* The test "if exclude_set:" : neither None nor an empty set.
HasExclusion(exclude_set) ==
    /\ ~IsNone(exclude_set)
    /\ Val(exclude_set) # {}

\* Exclude_prev changed: the right-hand side is 0 instead of 1.
Exclude_prev_zero(classes, x, exclude_set) ==
    HasExclusion(exclude_set) =>
        LET rest == SelectSeq(Keys(classes), LAMBDA c : c \notin Val(exclude_set))
        IN SumOver([c \in Val(exclude_set) |-> 1 - x[c]], Val(exclude_set))
             + lpSum([i \in DOMAIN rest |-> x[rest[i]]]) >= 0

\* "Exclude_prev"
Exclude_prev(classes, x, exclude_set) ==
    HasExclusion(exclude_set) =>
        LET rest == SelectSeq(Keys(classes), LAMBDA c : c \notin Val(exclude_set))
        IN SumOver([c \in Val(exclude_set) |-> 1 - x[c]], Val(exclude_set))
             + lpSum([i \in DOMAIN rest |-> x[rest[i]]]) >= 1

\* The problem build_problem returns, as the data its constraints are built from.
build_problem(classes, user_preferences, max_budget, max_classes, max_duration, diversity_bonus, exclude_set) ==
    [classes |-> classes, user_preferences |-> user_preferences,
     max_budget |-> max_budget, max_classes |-> max_classes,
     max_duration |-> max_duration, diversity_bonus |-> diversity_bonus,
     exclude_set |-> exclude_set]

\* The constraints on the selection variables x alone.
SelectionConstraints(problem, x) ==
    /\ Budget(problem.classes, x, problem.max_budget)
    /\ Max_Classes(problem.classes, x, problem.max_classes)
    /\ Max_Duration(problem.classes, x, problem.max_duration)
    /\ \A i \in DOMAIN TIME_SLOTS : Slot(problem.classes, x, TIME_SLOTS[i])
    /\ Exclude_prev(problem.classes, x, problem.exclude_set)

\* The constraints linking the category indicators y to x.
LinkingConstraints(problem, x, y) ==
    \A cat \in get_categories(problem.classes) :
        /\ Cat_has_class(problem.classes, x, y, cat)
        /\ Cat_upper(problem.classes, x, y, cat)

\* An assignment satisfies every constraint added to the problem.
Constraints(problem, x, y) ==
    /\ SelectionConstraints(problem, x)
    /\ LinkingConstraints(problem, x, y)

ObjectiveOf(problem, a) ==
    Objective(problem.classes, problem.user_preferences, problem.diversity_bonus, a.x, a.y)

\* Every 0/1 assignment of x (one variable per class) and y (one per category)
\* that satisfies Constraints.
FeasibleSet(problem) ==
    LET xs == {x \in [DOMAIN problem.classes -> {0, 1}] : SelectionConstraints(problem, x)}
        ys(x) == {y \in [get_categories(problem.classes) -> {0, 1}] :
                     LinkingConstraints(problem, x, y)}
    IN UNION {{[x |-> x, y |-> y] : y \in ys(x)} : x \in xs}

\* The assignments of greatest objective value among a set of feasible ones.
Maximal(problem, F) ==
    LET values == {ObjectiveOf(problem, a) : a \in F}
        best == CHOOSE v \in values : \A w \in values : w <= v
    IN {a \in F : ObjectiveOf(problem, a) = best}

\* The solver: Infeasible when no assignment satisfies the constraints, else
\* Optimal with any one of the assignments of greatest objective value.
solve(problem) ==
    LET F == FeasibleSet(problem)
    IN IF F = {}
       THEN {[status |-> LpStatusInfeasible, assignment |-> None, objective |-> None]}
       ELSE {[status |-> LpStatusOptimal, assignment |-> Some(a),
              objective |-> Some(ObjectiveOf(problem, a))] : a \in Maximal(problem, F)}

\* A solver that ends without an answer (not solved, undefined).
Unsolved == [status |-> LpStatusNotSolved, assignment |-> None, objective |-> None]

Elems(s) == {s[i] : i \in DOMAIN s}

get_solution(classes, x, user_preferences) ==
    LET recommended == SelectSeq(Keys(classes), LAMBDA c : x[c] = 1)
    IN [recommended |-> recommended,
        total_price |-> lpSum([i \in DOMAIN recommended |-> classes[recommended[i]].price]),
        total_duration |-> lpSum([i \in DOMAIN recommended |-> classes[recommended[i]].duration]),
        total_score |-> lpSum([i \in DOMAIN recommended |-> get_score(recommended[i], user_preferences)]),
        categories_used |-> {classes[c].category : c \in Elems(recommended)}]

\* ------------------------------------------------------- top-2 generation
VARIABLES
    pc,                      \* "round1", "round2" (problem2 built, not yet solved), "done"
    user_id_or_preferences,  \* argument of recommend_for_user
    max_budget,              \* argument
    max_classes,             \* argument
    max_duration,            \* argument
    exclude_set,             \* exclude_set passed to the second build_problem, None before
    out1,                    \* problem1 after solve(): status, assignment, objective value
    sol1,                    \* get_solution of round 1 (rec1, price1, dur1, score1, cat1)
    out2,                    \* problem2 after solve()
    sol2,                    \* get_solution of round 2
    result,                  \* the returned 4-tuple
    problems_built,          \* number of build_problem calls made
    solver_calls             \* number of solve() calls made

vars == <<pc, user_id_or_preferences, max_budget, max_classes, max_duration, exclude_set,
          out1, sol1, out2, sol2, result, problems_built, solver_calls>>

\* Requests: profile names (one of them unknown), None, and override mappings of
\* one catalog class or of an identifier the catalog does not have.
ProfileNames == {"default", "cardio_lover", "budget_focused", "mind_body_fan", "mixed", "nobody"}
UnknownId == "Sauna"
OverrideScores == {-1, MaxOverrideScore}
OverrideDicts ==
    {<<>>}
    \cup {(c :> v) : c \in DOMAIN CLASSES \cup {UnknownId}, v \in OverrideScores}
    \cup {(c :> MaxOverrideScore) @@ (UnknownId :> MaxOverrideScore) : c \in DOMAIN CLASSES}
Requests == {AsNone} \cup {AsName(n) : n \in ProfileNames} \cup {AsDict(d) : d \in OverrideDicts}
BudgetInputs == {-1, 45} \cup (MAX_BUDGET .. MAX_BUDGET + LimitSlack)
ClassesInputs == -1 .. MaxClassesInput
DurationInputs == {105} \cup (MAX_DURATION .. MAX_DURATION + LimitSlack)

NotRun == [status |-> LpStatusNotSolved, assignment |-> None, objective |-> None]
NoResult == [plan1_list |-> None, plan1_score |-> None, plan2_list |-> None, plan2_score |-> None]

Init ==
    /\ pc = "round1"
    /\ user_id_or_preferences \in Requests
    /\ max_budget \in BudgetInputs
    /\ max_classes \in ClassesInputs
    /\ max_duration \in DurationInputs
    /\ exclude_set = None
    /\ out1 = NotRun
    /\ sol1 = None
    /\ out2 = NotRun
    /\ sol2 = None
    /\ result = NoResult
    /\ problems_built = 0
    /\ solver_calls = 0

user_preferences == get_preferences_for_user(user_id_or_preferences)

\* The test "problem.status != 1", negated.
IsOptimal(status) == status = LpStatusOptimal

problem1 ==
    build_problem(CLASSES, user_preferences, max_budget, max_classes, max_duration,
                  DIVERSITY_BONUS, None)

\* problem2 changed: built with the module defaults, as run_recommendation
\* does, instead of the limits of the request.
problem2_defaults ==
    build_problem(CLASSES, user_preferences, MAX_BUDGET, MAX_CLASSES, MAX_DURATION,
                  DIVERSITY_BONUS, exclude_set)

problem2 ==
    build_problem(CLASSES, user_preferences, max_budget, max_classes, max_duration,
                  DIVERSITY_BONUS, exclude_set)

\* Round1Step changed: the early return on a status other than Optimal is
\* missing; no variable then has value 1 and rec1 is empty.
Round1StepNoReturn(o) ==
    /\ pc = "round1"
    /\ out1' = o
    /\ solver_calls' = solver_calls + 1
    /\ LET x == IF IsNone(o.assignment) THEN [c \in DOMAIN CLASSES |-> 0]
                ELSE Val(o.assignment).x
           s == get_solution(CLASSES, x, user_preferences)
       IN /\ sol1' = Some(s)
          /\ exclude_set' = Some(Elems(s.recommended))
          /\ problems_built' = problems_built + 2
          /\ pc' = "round2"
          /\ UNCHANGED result
    /\ UNCHANGED <<user_id_or_preferences, max_budget, max_classes, max_duration, out2, sol2>>

\* Round 1 from the first build_problem to the second one (or to the early
\* return), given what the solver answered for problem1.
Round1Step(o) ==
    /\ pc = "round1"
    /\ out1' = o
    /\ solver_calls' = solver_calls + 1
    /\ IF ~IsOptimal(o.status)
       THEN /\ result' = NoResult
            /\ pc' = "done"
            /\ problems_built' = problems_built + 1
            /\ UNCHANGED <<sol1, exclude_set>>
       ELSE LET s == get_solution(CLASSES, Val(o.assignment).x, user_preferences)
            IN /\ sol1' = Some(s)
               /\ exclude_set' = Some(Elems(s.recommended))
               /\ problems_built' = problems_built + 2
               /\ pc' = "round2"
               /\ UNCHANGED result
    /\ UNCHANGED <<user_id_or_preferences, max_budget, max_classes, max_duration, out2, sol2>>

\* Round 2 from problem2.solve() to the return.
Round2Step(o) ==
    /\ pc = "round2"
    /\ out2' = o
    /\ solver_calls' = solver_calls + 1
    /\ IF ~IsOptimal(o.status)
       THEN /\ result' = [plan1_list |-> Some(Val(sol1).recommended),
                          plan1_score |-> Some(Val(sol1).total_score),
                          plan2_list |-> None, plan2_score |-> None]
            /\ UNCHANGED sol2
       ELSE LET s == get_solution(CLASSES, Val(o.assignment).x, user_preferences)
            IN /\ sol2' = Some(s)
               /\ result' = [plan1_list |-> Some(Val(sol1).recommended),
                             plan1_score |-> Some(Val(sol1).total_score),
                             plan2_list |-> Some(s.recommended),
                             plan2_score |-> Some(s.total_score)]
    /\ pc' = "done"
    /\ UNCHANGED <<user_id_or_preferences, max_budget, max_classes, max_duration,
                   exclude_set, out1, sol1, problems_built>>

Round1 == pc = "round1" /\ \E o \in solve(problem1) : Round1Step(o)
Round2 == pc = "round2" /\ \E o \in solve(problem2) : Round2Step(o)

\* The same rounds when the solver may also end without an answer.
Round1Unsolved == Round1Step(Unsolved)
Round2Unsolved == Round2Step(Unsolved)

Next == Round1 \/ Round2
Spec == Init /\ [][Next]_vars

NextOracle == Round1 \/ Round2 \/ Round1Unsolved \/ Round2Unsolved
SpecOracle == Init /\ [][NextOracle]_vars

\* ================================================================ claims
\* The set of classes an assignment of x selects.
Selected(x) == {c \in DOMAIN x : x[c] = 1}

Returned1 == pc = "done" /\ ~IsNone(result.plan1_list)
Returned2 == pc = "done" /\ ~IsNone(result.plan2_list)

\* ---------------------------------------------------------------- C1
\* C1 (distinctness): whenever recommend_for_user returns both a rank-1 and a
\* rank-2 plan, their item sets are not equal as sets, the empty rank-1 plan
\* included.
C1_Distinctness ==
    (Returned1 /\ Returned2) =>
        Elems(Val(result.plan1_list)) # Elems(Val(result.plan2_list))

\* ---------------------------------------------------------------- C10
\* C10 (exclusion constraint): for the prior selection S passed to the second
\* build_problem and every 0/1 assignment X of the selection variables, the
\* exclusion admits X exactly when the set X selects differs from S.
C10_ExclusionExact ==
    pc = "round2" =>
        \A x \in [DOMAIN CLASSES -> {0, 1}] :
            Exclude_prev(CLASSES, x, exclude_set) <=> Selected(x) # Val(exclude_set)

\* ---------------------------------------------------------------- C3
\* C3 (constraint satisfaction): every plan returned, at rank 1 and at rank 2,
\* has total price <= max_budget, at most max_classes items, total duration
\* <= max_duration, and at most one item in each timeslot.
PlanWithinLimits(plan) ==
    /\ plan.total_price <= max_budget
    /\ Len(plan.recommended) <= max_classes
    /\ plan.total_duration <= max_duration
    /\ \A slot \in {CLASSES[c].time_slot : c \in DOMAIN CLASSES} :
          Cardinality({i \in DOMAIN plan.recommended :
                          CLASSES[plan.recommended[i]].time_slot = slot}) <= 1

C3_ConstraintSatisfaction ==
    /\ Returned1 => /\ result.plan1_list = Some(Val(sol1).recommended)
                    /\ PlanWithinLimits(Val(sol1))
    /\ Returned2 => /\ result.plan2_list = Some(Val(sol2).recommended)
                    /\ PlanWithinLimits(Val(sol2))

\* Both plans returned, rank 1 spending the whole budget on three classes.
C3_Witness ==
    /\ Returned1 /\ Returned2
    /\ Len(Val(sol1).recommended) = 3
    /\ Val(sol1).total_price = max_budget
    /\ Len(Val(sol2).recommended) >= 2

\* ---------------------------------------------------------------- C4
\* C4 (monotonic ranking): whenever both rounds end Optimal, the objective
\* value of round 1 is >= the objective value of round 2, and every assignment
\* feasible in round 2 is feasible in round 1.
C4_MonotonicRanking ==
    (pc = "done" /\ IsOptimal(out1.status) /\ IsOptimal(out2.status)) =>
        /\ Val(out1.objective) >= Val(out2.objective)
        /\ Constraints(problem1, Val(out2.assignment).x, Val(out2.assignment).y)

\* Both rounds Optimal with a strictly smaller objective at rank 2.
C4_Witness ==
    /\ pc = "done" /\ IsOptimal(out1.status) /\ IsOptimal(out2.status)
    /\ Val(out1.objective) > Val(out2.objective)
    /\ Val(out2.objective) > 0

\* ---------------------------------------------------------------- C5
\* C5 (diversity consistency): in every Optimal assignment, y[c] = 1 exactly
\* when a class of category c is selected, categories_used is the set of
\* categories whose indicator is 1, and the objective value is
\* total_score + DIVERSITY_BONUS * |categories_used|.
DiversityConsistent(out, plan) ==
    LET a == Val(out.assignment)
    IN /\ \A cat \in get_categories(CLASSES) :
             a.y[cat] = 1 <=> \E c \in Selected(a.x) : CLASSES[c].category = cat
       /\ \A cat \in get_categories(CLASSES) : a.y[cat] \in {0, 1}
       /\ plan.categories_used = {cat \in get_categories(CLASSES) : a.y[cat] = 1}
       /\ Val(out.objective)
            = plan.total_score + DIVERSITY_BONUS * Cardinality(plan.categories_used)

C5_DiversityConsistency ==
    /\ (pc # "round1" /\ IsOptimal(out1.status)) => DiversityConsistent(out1, Val(sol1))
    /\ (pc = "done" /\ IsOptimal(out2.status)) => DiversityConsistent(out2, Val(sol2))

\* Optimal assignments of both rounds, round 2 with three classes selected,
\* two categories used and one unused.
C5_Witness ==
    /\ pc = "done" /\ IsOptimal(out1.status) /\ IsOptimal(out2.status)
    /\ Len(Val(sol2).recommended) = 3
    /\ Cardinality(Val(sol2).categories_used) = 2
    /\ Cardinality(Val(sol1).categories_used) = 1

\* ---------------------------------------------------------------- C6
\* The concrete scenario: default scores, no overrides, the default limits.
ConcreteScenario ==
    /\ IsNone(user_preferences)
    /\ max_budget = MAX_BUDGET
    /\ max_classes = MAX_CLASSES
    /\ max_duration = MAX_DURATION

\* C6 (concrete scenario, rank 1): the rank-1 plan is exactly {HIIT, Pilates,
\* Zumba} with price 50, duration 150, satisfaction 21, categories {cardio,
\* mind_body} and objective 25, and no other feasible selection reaches 25.
C6_Rank1 ==
    (ConcreteScenario /\ pc # "round1") =>
        /\ IsOptimal(out1.status)
        /\ sol1 = Some([recommended |-> <<"HIIT", "Pilates", "Zumba">>,
                        total_price |-> 50, total_duration |-> 150, total_score |-> 21,
                        categories_used |-> {"cardio", "mind_body"}])
        /\ out1.objective = Some(25)
        /\ \A a \in FeasibleSet(problem1) :
              ObjectiveOf(problem1, a) >= 25 => Selected(a.x) = {"HIIT", "Pilates", "Zumba"}
        /\ pc = "done" => /\ result.plan1_list = Some(<<"HIIT", "Pilates", "Zumba">>)
                          /\ result.plan1_score = Some(21)

C6_Witness ==
    /\ ConcreteScenario /\ pc = "done"
    /\ user_id_or_preferences = AsNone
    /\ result.plan1_list = Some(<<"HIIT", "Pilates", "Zumba">>)

\* ---------------------------------------------------------------- C7
\* C7 as stated (concrete scenario, rank 2): the rank-2 plan is always {Yoga,
\* Spinning, Zumba}, whichever optimal assignment the solver picks.
C7_Rank2Deterministic ==
    (ConcreteScenario /\ pc = "done") =>
        result.plan2_list = Some(<<"Yoga", "Spinning", "Zumba">>)

\* C7 as amended: in the concrete scenario the rank-2 plan is one of the two
\* selections tied at objective 23, {Yoga, Spinning, Zumba} (price 49, duration
\* 150) or {HIIT, Boxing} (price 45, duration 105), each with satisfaction 19
\* and two categories; the solver chooses between them.
C7_Rank2Tied ==
    (ConcreteScenario /\ pc = "done") =>
        /\ IsOptimal(out2.status)
        /\ out2.objective = Some(23)
        /\ result.plan2_score = Some(19)
        /\ result.plan2_list = Some(Val(sol2).recommended)
        /\ \/ sol2 = Some([recommended |-> <<"Yoga", "Spinning", "Zumba">>,
                           total_price |-> 49, total_duration |-> 150, total_score |-> 19,
                           categories_used |-> {"cardio", "mind_body"}])
           \/ sol2 = Some([recommended |-> <<"HIIT", "Boxing">>,
                           total_price |-> 45, total_duration |-> 105, total_score |-> 19,
                           categories_used |-> {"cardio", "strength"}])

\* The solver picked the tied selection the stated tie-break would not.
C7_Witness ==
    /\ ConcreteScenario /\ pc = "done"
    /\ result.plan1_list = Some(<<"HIIT", "Pilates", "Zumba">>)
    /\ result.plan2_list = Some(<<"HIIT", "Boxing">>)

\* ---------------------------------------------------------------- C2
\* The concrete scenario with the item-count limit set to 0.
ZeroCountScenario ==
    /\ IsNone(user_preferences)
    /\ max_budget = MAX_BUDGET
    /\ max_classes = 0
    /\ max_duration = MAX_DURATION

\* C2 as stated: with max_classes = 0 no plan is returned at rank 1 nor at
\* rank 2.
C2_NoPlan ==
    (ZeroCountScenario /\ pc = "done") =>
        IsNone(result.plan1_list) /\ IsNone(result.plan2_list)

\* C2 as amended: with max_classes = 0 round 1 ends Optimal with the empty
\* selection, which is returned as the rank-1 plan with score 0 (objective 0),
\* and no returned plan holds any item.
C2_EmptySelection ==
    (ZeroCountScenario /\ pc # "round1") =>
        /\ IsOptimal(out1.status)
        /\ out1.objective = Some(0)
        /\ sol1 = Some([recommended |-> <<>>, total_price |-> 0, total_duration |-> 0,
                        total_score |-> 0, categories_used |-> {}])
        /\ pc = "done" =>
              /\ result.plan1_list = Some(<<>>)
              /\ result.plan1_score = Some(0)
              /\ ~IsNone(result.plan2_list) => /\ result.plan2_list = Some(<<>>)
                                               /\ result.plan2_score = Some(0)

C2_Witness ==
    /\ ZeroCountScenario /\ pc = "done"
    /\ user_id_or_preferences = AsNone
    /\ solver_calls >= 1

\* ---------------------------------------------------------------- C8
\* The request's override mapping names an identifier the catalog lacks.
HasUnknownId ==
    /\ user_id_or_preferences.kind = "dict"
    /\ \E k \in DOMAIN user_id_or_preferences.prefs : k \notin DOMAIN CLASSES

\* The override mapping without its entries for unknown identifiers.
KnownOverrides ==
    LET d == user_id_or_preferences.prefs
    IN Some([k \in DOMAIN d \cap DOMAIN CLASSES |-> d[k]])

\* C8 as stated: a request whose override mapping has an unknown item id makes
\* no solver call and produces no plan.
C8_RejectedBeforeSolve ==
    HasUnknownId => /\ solver_calls = 0
                    /\ IsNone(result.plan1_list)

\* C8 as amended: a request whose override mapping has an unknown item id is
\* not rejected: the unknown entry is ignored, every class is scored as by the
\* mapping without that entry, the solver is called, and the outcome of round 1
\* is an outcome of the problem built from the mapping without that entry, its
\* plan being returned when it is Optimal.
C8_UnknownIgnored ==
    HasUnknownId =>
        /\ \A c \in DOMAIN CLASSES :
              get_score(c, user_preferences) = get_score(c, KnownOverrides)
        /\ pc # "round1" =>
              /\ solver_calls >= 1
              /\ out1 \in solve(build_problem(CLASSES, KnownOverrides, max_budget, max_classes,
                                              max_duration, DIVERSITY_BONUS, None))
        /\ (pc = "done" /\ IsOptimal(out1.status)) =>
              result.plan1_list = Some(Val(sol1).recommended)

\* A request overriding Zumba and an unknown id has returned a plan with Zumba.
C8_Witness ==
    /\ HasUnknownId /\ pc = "done"
    /\ "Zumba" \in DOMAIN user_id_or_preferences.prefs
    /\ Returned1 /\ Returned2
    /\ "Zumba" \in Elems(Val(result.plan1_list))

\* ---------------------------------------------------------------- C9
\* C9 (early termination): a round-1 solve that is not Optimal ends the
\* generation with no plan and no second build or solve; a round-2 solve that
\* is not Optimal returns the rank-1 plan unchanged and no rank-2 plan; at most
\* two solver calls happen, the second only after an Optimal first.
C9_EarlyTermination ==
    /\ solver_calls <= 2
    /\ solver_calls = 2 => IsOptimal(out1.status)
    /\ (pc # "round1" /\ ~IsOptimal(out1.status)) =>
          /\ pc = "done"
          /\ result = [plan1_list |-> None, plan1_score |-> None,
                       plan2_list |-> None, plan2_score |-> None]
          /\ solver_calls = 1
          /\ problems_built = 1
          /\ IsNone(exclude_set) /\ IsNone(sol1) /\ IsNone(sol2)
    /\ (pc = "done" /\ IsOptimal(out1.status) /\ ~IsOptimal(out2.status)) =>
          LET plan1 == get_solution(CLASSES, Val(out1.assignment).x, user_preferences)
          IN /\ result = [plan1_list |-> Some(plan1.recommended),
                          plan1_score |-> Some(plan1.total_score),
                          plan2_list |-> None, plan2_score |-> None]
             /\ IsNone(sol2)
             /\ solver_calls = 2

\* Round 1 Optimal with a non-empty plan, round 2 ended without an answer.
C9_Witness ==
    /\ pc = "done" /\ IsOptimal(out1.status) /\ ~IsOptimal(out2.status)
    /\ Len(Val(result.plan1_list)) = 3
    /\ IsNone(result.plan2_list)

====
